---- MODULE Spec2Model ----
(***************************************************************************)
(* Report numbering and registry-append protocol of the DALGORO report     *)
(* generator (app/main.py, app/google_sheets.py, app/google_drive.py,      *)
(* app/report_generator.py).                                               *)
(*                                                                         *)
(* The spreadsheet is a shared store; every gspread call is one atomic     *)
(* step.  Request handlers run on concurrent workers; each worker serves   *)
(* one request at a time, from start to response.                          *)
(***************************************************************************)
EXTENDS Integers, Sequences, FiniteSets, TLC

\* ------------------------------------------------------------------------
\* Bounds of the model
\* ------------------------------------------------------------------------
\* Total number of requests served in one behaviour.
MaxRequests == 2
\* Largest sequence number of the dense range passed to format_report_number.
MaxSeq == 40
\* Longest list passed to normalize_ids.
MaxIds == 4
\* Largest magnitude, in tenths of a percent, passed to the chart renderer.
MaxTenths == 1510

\* Concurrent request workers (FastAPI runs sync endpoints on a thread pool).
Workers == {"w1", "w2"}

\* ------------------------------------------------------------------------
\* Program constants
\* ------------------------------------------------------------------------
REPORTS_SEQ_SHEET_NAME == "INFORMES_SEQ"
GSHEET_TAB_REPORTES == "Informes"
REPORTS_NUMBER_PREFIX == <<"I", "N", "F">>
REPORTS_NUMBER_PAD == 5
\* datetime.now(tz).year in format_report_number, while the behaviour runs.
CurrentYear == 2024
\* {20,} in _ID_RAW and _ID_PATTERNS
MinIdLen == 20

SeqHeaders == <<"timestamp", "responsable", "proyecto_id">>
ReportHeaders == <<"proyecto_id", "id_informe", "fecha", "responsable">>

Tabs == {REPORTS_SEQ_SHEET_NAME, GSHEET_TAB_REPORTES}

\* ------------------------------------------------------------------------
\* Strings that are inspected character by character are tuples of
\* one-character strings.
\* ------------------------------------------------------------------------
Whitespace == {" "}
IdChars ==
    {"a","b","c","d","e","f","g","h","i","j","k","l","m","n","o","p","q","r",
     "s","t","u","v","w","x","y","z",
     "A","B","C","D","E","F","G","H","I","J","K","L","M","N","O","P","Q","R",
     "S","T","U","V","W","X","Y","Z",
     "0","1","2","3","4","5","6","7","8","9","_","-"}

RECURSIVE Rep(_, _)
Rep(c, n) == IF n = 0 THEN <<>> ELSE <<c>> \o Rep(c, n - 1)

RECURSIVE lstrip(_)
lstrip(s) == IF s # <<>> /\ Head(s) \in Whitespace THEN lstrip(Tail(s)) ELSE s

RECURSIVE rstrip(_)
rstrip(s) ==
    IF s # <<>> /\ s[Len(s)] \in Whitespace
    THEN rstrip(SubSeq(s, 1, Len(s) - 1))
    ELSE s

strip(s) == rstrip(lstrip(s))

\* Length of the longest run of identifier characters of s starting at i:
\* what the greedy [a-zA-Z0-9_-]{20,} consumes there.
RECURSIVE RunLen(_, _)
RunLen(s, i) ==
    IF i <= Len(s) /\ s[i] \in IdChars THEN 1 + RunLen(s, i + 1) ELSE 0

\* _ID_RAW.fullmatch(s)
MatchIdRaw(s) == Len(s) >= MinIdLen /\ \A i \in 1..Len(s) : s[i] \in IdChars

\* Positions where r"/d/([a-zA-Z0-9_-]{20,})/" matches.
PathMatches(s) ==
    {i \in 1..Len(s) :
        /\ i + 2 <= Len(s)
        /\ SubSeq(s, i, i + 2) = <<"/", "d", "/">>
        /\ RunLen(s, i + 3) >= MinIdLen
        /\ i + 3 + RunLen(s, i + 3) <= Len(s)
        /\ s[i + 3 + RunLen(s, i + 3)] = "/"}

\* Positions where r"[?&]id=([a-zA-Z0-9_-]{20,})" matches.
QueryMatches(s) ==
    {i \in 1..Len(s) :
        /\ i + 3 <= Len(s)
        /\ s[i] \in {"?", "&"}
        /\ SubSeq(s, i + 1, i + 3) = <<"i", "d", "=">>
        /\ RunLen(s, i + 4) >= MinIdLen}

Min(S) == CHOOSE x \in S : \A y \in S : x <= y
Max(S) == CHOOSE x \in S : \A y \in S : x >= y

extract_id_from_url(url_or_id) ==
    LET s == strip(url_or_id) IN
    IF s = <<>> THEN <<>>
    ELSE IF MatchIdRaw(s) THEN s
    ELSE IF PathMatches(s) # {}
         THEN LET i == Min(PathMatches(s))
              IN SubSeq(s, i + 3, i + 2 + RunLen(s, i + 3))
    ELSE IF QueryMatches(s) # {}
         THEN LET i == Min(QueryMatches(s))
              IN SubSeq(s, i + 4, i + 3 + RunLen(s, i + 4))
    ELSE <<>>

\* Variant: repeated identifiers are kept.
DedupKeepsAll(out, seen) == out

RECURSIVE Dedup(_, _)
Dedup(out, seen) ==
    IF out = <<>> THEN <<>>
    ELSE IF Head(out) \in seen THEN Dedup(Tail(out), seen)
    ELSE <<Head(out)>> \o Dedup(Tail(out), seen \cup {Head(out)})

RECURSIVE ExtractAll(_)
ExtractAll(mixed) ==
    IF mixed = <<>> THEN <<>>
    ELSE LET fid == extract_id_from_url(Head(mixed)) IN
         (IF fid # <<>> THEN <<fid>> ELSE <<>>) \o ExtractAll(Tail(mixed))

normalize_ids(mixed) == Dedup(ExtractAll(mixed), {})

\* ------------------------------------------------------------------------
\* Files of the cloud file store and the tokens users type into the form.
\* ------------------------------------------------------------------------
IdFoto == Rep("A", MinIdLen)
IdPdf == Rep("B", MinIdLen + 1)

\* What the store returns for an identifier: an image, or a file that is
\* not an image.
DriveBlob(fid) == IF fid = IdFoto THEN "image" ELSE "not_image"

UrlFoto == <<"/", "d", "/">> \o IdFoto \o <<"/", "v">>
UrlPdf == <<"u", "c", "?", "i", "d", "=">> \o IdPdf \o <<"&", "e">>
Corto == <<"s", "h", "o", "r", "t">>
\* More tokens: a third identifier; an identifier between blanks; a link
\* where ?id= comes before /d/<ID>/; /d/<ID> without the closing slash; an
\* identifier followed by a character outside the class.
IdActa == Rep("C", MinIdLen + 2)
Espaciado == <<" ">> \o IdFoto \o <<" ">>
UrlDoble == <<"?", "i", "d", "=">> \o IdPdf \o <<"&", "x", "/", "d", "/">> \o IdFoto \o <<"/">>
UrlAbierta == <<"/", "d", "/">> \o IdFoto
IdPunto == IdFoto \o <<".">>

\* _download_binary_file: the bytes, or None on any error.
_download_binary_file(fid, failing) ==
    IF fid \in failing THEN "None" ELSE DriveBlob(fid)

\* The loop of download_images_by_ids, after the service was obtained.
RECURSIVE DownloadLoop(_, _)
DownloadLoop(file_ids, failing) ==
    IF file_ids = <<>> THEN <<>>
    ELSE LET fid == Head(file_ids)
             data == _download_binary_file(fid, failing)
         IN (IF fid # <<>> /\ data # "None" THEN <<data>> ELSE <<>>)
            \o DownloadLoop(Tail(file_ids), failing)

\* ------------------------------------------------------------------------
\* Report number
\* ------------------------------------------------------------------------
RECURSIVE Digits(_)
Digits(n) == IF n < 10 THEN <<n>> ELSE Append(Digits(n \div 10), n % 10)

DigitChars == <<"0", "1", "2", "3", "4", "5", "6", "7", "8", "9">>

\* The number a tuple of digit characters reads as; -1 if a character is
\* no digit.
DigitValue(c) ==
    IF \E d \in 1..10 : DigitChars[d] = c
    THEN (CHOOSE d \in 1..10 : DigitChars[d] = c) - 1
    ELSE -1

RECURSIVE Value(_)
Value(ds) ==
    IF ds = <<>> THEN 0
    ELSE IF DigitValue(ds[Len(ds)]) < 0 \/ Value(SubSeq(ds, 1, Len(ds) - 1)) < 0 THEN -1
    ELSE 10 * Value(SubSeq(ds, 1, Len(ds) - 1)) + DigitValue(ds[Len(ds)])

\* str(n) for n >= 0
Str(n) == [i \in 1..Len(Digits(n)) |-> DigitChars[Digits(n)[i] + 1]]

\* Variant: the number is cut to its last pad digits.
ZeroPadTruncates(seq, pad) ==
    LET d == Str(seq) IN
    IF Len(d) >= pad THEN SubSeq(d, Len(d) - pad + 1, Len(d))
    ELSE Rep("0", pad - Len(d)) \o d

\* f"{seq:0{pad}d}" for seq >= 0
ZeroPad(seq, pad) ==
    LET d == Str(seq) IN
    IF Len(d) >= pad THEN d ELSE Rep("0", pad - Len(d)) \o d

\* f"{prefix}-{year}-{seq:0{pad}d}"
format_report_number(seq, prefix, pad) ==
    prefix \o <<"-">> \o Str(CurrentYear) \o <<"-">> \o ZeroPad(seq, pad)

\* ------------------------------------------------------------------------
\* Registry contents that exist before the behaviour starts
\* ------------------------------------------------------------------------
\* proyecto_id column of the Proyectos tab.
Proyectos == {"P1"}

\* Forms submitted to /generar: proyecto_id blank, present in Proyectos, or
\* absent from it.  imagenes holds the tokens of the comma-separated
\* imagenes_drive_ids field after split(",") and strip().
Forms ==
    [F1 |-> [proyecto_id |-> "", responsable |-> "", imagenes |-> <<>>,
             nivel_cumplimiento |-> <<>>],
     F2 |-> [proyecto_id |-> "P1", responsable |-> "Ana",
             imagenes |-> <<IdFoto, Corto, UrlFoto>>,
             nivel_cumplimiento |-> <<"8", "0", ",", "2", "%">>],
     F3 |-> [proyecto_id |-> "P9", responsable |-> "Ana", imagenes |-> <<UrlPdf>>,
             nivel_cumplimiento |-> <<"8", "0", ".", "9">>]]

\* Stored report rows (legacy tab GSHEET_TAB), by id_informe.
Datos ==
    [I1 |-> [id_informe |-> <<"I", "1">>, proyecto_id |-> "P1", responsable |-> "Ana",
             imagenes |-> <<>>, nivel_cumplimiento |-> <<"1", "5", "0">>],
     I2 |-> [id_informe |-> <<"I", "2">>, proyecto_id |-> "P9", responsable |-> "Ana",
             imagenes |-> <<UrlFoto>>, nivel_cumplimiento |-> <<>>],
     I3 |-> [id_informe |-> <<"I", "3">>, proyecto_id |-> "", responsable |-> "",
             imagenes |-> <<>>, nivel_cumplimiento |-> <<"x">>]]
IdInformes == {"I1", "I2", "I3", "I0"}

\* safe_filename parts of the output name: project, client, date.
NameParts == {"Proyecto_Cliente_2024-01-01"}

Handlers == {"generar", "generar_desde_sheet"}

\* ------------------------------------------------------------------------
\* State
\* ------------------------------------------------------------------------
VARIABLES
    sheet,         \* the spreadsheet: tab name -> [exists, rows]
    docs,          \* files in OUTPUT_DIR
    w,             \* locals of the request each worker is serving
    started,       \* requests received so far
    returned,      \* values returned by reserve_report_sequence, in return order
    linearizable,  \* whether the store serves every read from its latest state
    reserved,      \* rows appended to the counter tab by reserve_report_sequence
    charts,        \* chart files in OUTPUT_DIR: path -> percentage drawn
    call           \* a call of a helper function: its arguments and its result

\* The state of the request pipeline.
pvars == <<sheet, docs, w, started, returned, linearizable, reserved, charts>>

vars == <<sheet, docs, w, started, returned, linearizable, reserved, charts, call>>

\* args: the submitted form (generar) or the stored row (generar_desde_sheet).
\* stages, failedAt, err, saved, appended, floor and chart_own record what
\* the request has done so far.
IdleLocals ==
    [pc |-> "idle", step |-> "-", handler |-> "-", args |-> "-",
     proyecto_id |-> "", responsable_val |-> "", row_proyecto |-> "empty",
     images |-> <<>>, seq |-> 0, filename |-> <<>>, filename_pdf |-> <<>>,
     stages |-> <<>>, failedAt |-> "-", err |-> "-", response |-> "-",
     saved |-> FALSE, appended |-> FALSE, floor |-> 0,
     ruta_png |-> <<>>, porcentaje |-> 0, chart_own |-> TRUE]

EmptyTab == [exists |-> TRUE, rows |-> <<>>]
MissingTab == [exists |-> FALSE, rows |-> <<>>]

\* A fresh spreadsheet without the two tabs, or one where both tabs hold
\* their header row and nothing else.
InitStore ==
    /\ sheet \in
         {[tab \in Tabs |-> MissingTab],
          [tab \in Tabs |-> [exists |-> TRUE,
                             rows |-> IF tab = REPORTS_SEQ_SHEET_NAME
                                      THEN <<SeqHeaders>> ELSE <<ReportHeaders>>]]}
    /\ docs = {}
    /\ w = [t \in Workers |-> IdleLocals]
    /\ started = 0
    /\ returned = <<>>
    /\ reserved = 0
    /\ charts = <<>>
    /\ call = <<>>

\* The store executes every call atomically and serves every read from its
\* latest state.
Init == InitStore /\ linearizable = TRUE

\* The store may serve a read from an earlier state.
InitStale == InitStore /\ linearizable = FALSE

\* ------------------------------------------------------------------------
\* gspread calls
\* ------------------------------------------------------------------------
row_values(rows, n) == IF Len(rows) >= n THEN rows[n] ELSE <<>>

\* ws.update("A1:<end>1", [headers])
update_row1(rows, headers) ==
    IF rows = <<>> THEN <<headers>> ELSE [rows EXCEPT ![1] = headers]

\* Variant: the new row lands on the last data row instead of below it.
append_row_overwrites(rows, row) ==
    IF Len(rows) > 1 THEN [rows EXCEPT ![Len(rows)] = row] ELSE Append(rows, row)

append_row(rows, row) == Append(rows, row)

\* len(ws.get_all_values()): the row count of the latest state, or of an
\* earlier state of the tab when the store is not linearizable.
RowCounts(rows) == IF linearizable THEN {Len(rows)} ELSE 0..Len(rows)

\* Variant: the header row is counted.
SeqOfRowsWithHeader(total_rows) == total_rows

\* seq = total_rows - 1
SeqOfRows(total_rows) == total_rows - 1

\* Variant: zero passes the check.
SeqRejectedBelowZero(seq) == seq < 0

\* if seq < 1: raise RuntimeError
SeqRejected(seq) == seq < 1

\* ------------------------------------------------------------------------
\* Outcomes of a handler step
\* ------------------------------------------------------------------------
\* An exception or an error response ends the request; the handler's frame
\* is gone, the record of what the request did stays.
Failed(l, stage, err) ==
    [IdleLocals EXCEPT !.pc = "failed", !.handler = l.handler, !.stages = l.stages,
                       !.failedAt = stage, !.err = err, !.response = "error",
                       !.saved = l.saved, !.appended = l.appended]

Reached(l, stage, pc) == [l EXCEPT !.pc = pc, !.stages = Append(@, stage)]

\* Variant: the exception of append_report_entry escapes the handler.
OnLogErrorUncaught(l) ==
    [Failed(l, "Logged", "SheetsError") EXCEPT !.filename = l.filename]

\* The try/except around append_report_entry (main.py 216-221, 333-338).
OnLogError(l) ==
    [Reached(l, "Logged", "respond") EXCEPT !.step = "-", !.err = "LogWarning"]

\* An exception raised by a store call inside reserve_report_sequence or
\* append_report_entry.
StoreRaise(l) ==
    IF l.pc = "reserve" THEN Failed(l, "SequenceReserved", "SheetsError")
    ELSE OnLogError(l)

InStore(t) == w[t].pc \in {"reserve", "log"}
Tab(t) == IF w[t].pc = "reserve" THEN REPORTS_SEQ_SHEET_NAME ELSE GSHEET_TAB_REPORTES
Headers(t) == IF w[t].pc = "reserve" THEN SeqHeaders ELSE ReportHeaders

numero_informe(l) ==
    format_report_number(l.seq, REPORTS_NUMBER_PREFIX, REPORTS_NUMBER_PAD)

\* id_informe of the report the request was made for: the stored row's,
\* none in a form of /generar.
RequestedId(l) == IF l.handler = "generar" THEN <<>> ELSE Datos[l.args].id_informe

\* Variant: the Informes row carries the id_informe of the request.
RowOfRequestedId(l) ==
    IF l.pc = "reserve" THEN <<"ts", l.responsable_val, l.proyecto_id>>
    ELSE <<l.proyecto_id, RequestedId(l), "fecha_iso", l.responsable_val>>

\* The row each caller appends.
RowOf(l) ==
    IF l.pc = "reserve" THEN <<"ts", l.responsable_val, l.proyecto_id>>
    ELSE <<l.proyecto_id, numero_informe(l), "fecha_iso", l.responsable_val>>

\* ------------------------------------------------------------------------
\* Request handlers (main.py).  Form fields are drawn where the handler
\* first reads them.
\* ------------------------------------------------------------------------
Set(t, l) == w' = [w EXCEPT ![t] = l]

\* Where each handler goes after a step.
AfterProject(handler) == IF handler = "generar" THEN "images" ELSE "call_reserve"
\* Variant: generar goes from the images to the template check.
AfterImagesSkipsReserve(handler) == "template"

AfterImages(handler) == IF handler = "generar" THEN "call_reserve" ELSE "template"
AfterTemplate(handler) == IF handler = "generar" THEN "context" ELSE "project"
AfterReserve(handler) == IF handler = "generar" THEN "template" ELSE "context"

\* A request arrives at one of the two endpoints.
Start(t) ==
    /\ w[t].pc \in {"idle", "done", "failed"}
    /\ started < MaxRequests
    /\ started' = started + 1
    /\ \E handler \in Handlers :
         Set(t, [IdleLocals EXCEPT
                   !.handler = handler,
                   !.stages = <<"Received">>,
                   !.pc = IF handler = "generar" THEN "project" ELSE "lookup"])
    /\ UNCHANGED <<sheet, docs, returned, linearizable, reserved, charts>>

\* get_report_by_id over the Informes tab: its rows carry report numbers as
\* id_informe, never one of IdInformes, so the search falls through to
\* get_row_by_id over the legacy tab.
get_row_by_id(id_informe) ==
    IF id_informe \in DOMAIN Datos THEN <<Datos[id_informe]>> ELSE <<>>

\* generar_desde_sheet, lines 158-170.
Lookup(t) ==
    /\ w[t].pc = "lookup"
    /\ \E id_informe \in IdInformes, store_ok \in BOOLEAN :
         IF ~store_ok \/ ~sheet[GSHEET_TAB_REPORTES].exists
         THEN Set(t, Failed(w[t], "ReportLookup", "SheetsError"))
         ELSE IF get_row_by_id(id_informe) = <<>>
         THEN Set(t, Failed(w[t], "ReportLookup", "NotFound"))
         ELSE Set(t, [w[t] EXCEPT !.pc = "images", !.args = id_informe,
                                  !.proyecto_id = get_row_by_id(id_informe)[1].proyecto_id])
    /\ UNCHANGED <<sheet, docs, started, returned, linearizable, reserved, charts>>

\* The fields the handler reads from the form or from the stored row.
Args(l) == IF l.handler = "generar" THEN Forms[l.args] ELSE Datos[l.args]

\* get_project_by_id when the Proyectos tab can be read.
get_project_by_id(proyecto_id) ==
    IF proyecto_id = "" THEN "None"
    ELSE IF proyecto_id \in Proyectos THEN "found"
    ELSE "None"

\* generar, lines 263-270: every failure leaves row_proyecto = {}.
ProjectGenerar(l, form, lookup) ==
    LET proyecto_id == Forms[form].proyecto_id
        row == IF proyecto_id # "" /\ lookup # "raise" /\ lookup # "None"
               THEN "found" ELSE "empty"
    IN [Reached(l, "ProjectResolved", AfterProject(l.handler)) EXCEPT
          !.args = form, !.proyecto_id = proyecto_id, !.row_proyecto = row]

\* generar_desde_sheet, lines 184-186: the lookup is not guarded, and
\* {**row_proyecto, **row_reporte} needs a mapping.
ProjectSheet(l, lookup) ==
    IF l.proyecto_id = ""
    THEN [Reached(l, "ProjectResolved", AfterProject(l.handler)) EXCEPT
            !.row_proyecto = "empty"]
    ELSE IF lookup = "raise" THEN Failed(l, "ProjectResolved", "SheetsError")
    ELSE IF lookup = "None" THEN Failed(l, "ProjectResolved", "TypeError")
    ELSE [Reached(l, "ProjectResolved", AfterProject(l.handler)) EXCEPT
            !.row_proyecto = "found"]

Project(t) ==
    /\ w[t].pc = "project"
    /\ \E store_ok \in BOOLEAN :
         IF w[t].handler = "generar"
         THEN \E form \in DOMAIN Forms :
                Set(t, ProjectGenerar(w[t], form,
                         IF store_ok THEN get_project_by_id(Forms[form].proyecto_id)
                         ELSE "raise"))
         ELSE Set(t, ProjectSheet(w[t],
                         IF store_ok THEN get_project_by_id(w[t].proyecto_id)
                         ELSE "raise"))
    /\ UNCHANGED <<sheet, docs, started, returned, linearizable, reserved, charts>>

\* download_images_by_ids: get_drive_service() is called outside any try.
download_images_by_ids(l, file_ids, service_ok, failing) ==
    IF ~service_ok THEN Failed(l, "ImagesResolved", "DriveError")
    ELSE [Reached(l, "ImagesResolved", AfterImages(l.handler)) EXCEPT
            !.images = DownloadLoop(file_ids, failing)]

\* generar 273-277, generar_desde_sheet 172-174.
Images(t) ==
    /\ w[t].pc = "images"
    /\ LET ids == normalize_ids(Args(w[t]).imagenes) IN
         IF ids = <<>>
         THEN Set(t, Reached(w[t], "ImagesResolved", AfterImages(w[t].handler)))
         ELSE \E service_ok \in BOOLEAN, failing \in SUBSET {ids[i] : i \in 1..Len(ids)} :
                Set(t, download_images_by_ids(w[t], ids, service_ok, failing))
    /\ UNCHANGED <<sheet, docs, started, returned, linearizable, reserved, charts>>

\* os.path.exists(DOCX_TEMPLATE_PATH)
Template(t) ==
    /\ w[t].pc = "template"
    /\ \E exists \in BOOLEAN :
         IF exists THEN Set(t, [w[t] EXCEPT !.pc = AfterTemplate(w[t].handler)])
         ELSE Set(t, Failed(w[t], "TemplateCheck", "TemplateMissing"))
    /\ UNCHANGED <<sheet, docs, started, returned, linearizable, reserved, charts>>

\* responsable_val and the call of reserve_report_sequence (189-190, 304-305).
CallReserve(t) ==
    /\ w[t].pc = "call_reserve"
    /\ LET responsable == Args(w[t]).responsable IN
         Set(t, [w[t] EXCEPT
                   !.responsable_val =
                       IF responsable = "" THEN "SIN_RESPONSABLE" ELSE responsable,
                   !.pc = "reserve", !.step = "eh_open"])
    /\ UNCHANGED <<sheet, docs, started, returned, linearizable, reserved, charts>>

\* ------------------------------------------------------------------------
\* Store calls of reserve_report_sequence and append_report_entry
\* (google_sheets.py), one action per call.
\* ------------------------------------------------------------------------
\* _open_or_create_ws, lines 32-35: the client and the spreadsheet are
\* obtained outside the try; any exception of sh.worksheet leads to
\* add_worksheet.
WsOpen(t) ==
    /\ InStore(t)
    /\ w[t].step \in {"eh_open", "ws_open"}
    /\ \E outcome \in {"client_error", "found", "raised"} :
         /\ outcome = "found" => sheet[Tab(t)].exists
         /\ Set(t, CASE outcome = "client_error" -> StoreRaise(w[t])
                     [] outcome = "found" ->
                          [w[t] EXCEPT !.step = IF @ = "eh_open" THEN "eh_row1"
                                                ELSE "append"]
                     [] outcome = "raised" ->
                          [w[t] EXCEPT !.step = IF @ = "eh_open" THEN "eh_add"
                                                ELSE "ws_add"])
    /\ UNCHANGED <<sheet, docs, started, returned, linearizable, reserved, charts>>

\* _open_or_create_ws, lines 36-38: add_worksheet raises when the title is
\* taken; the worksheet is then opened again.
WsAdd(t) ==
    /\ InStore(t)
    /\ w[t].step \in {"eh_add", "ws_add"}
    /\ \E outcome \in {"created", "created_then_raised", "raised"} :
         /\ outcome # "raised" => ~sheet[Tab(t)].exists
         /\ sheet' = IF outcome = "raised" THEN sheet
                     ELSE [sheet EXCEPT ![Tab(t)] = EmptyTab]
         /\ Set(t, IF outcome = "created"
                   THEN [w[t] EXCEPT !.step = IF @ = "eh_add" THEN "eh_row1"
                                             ELSE "append"]
                   ELSE StoreRaise(w[t]))
    /\ UNCHANGED <<docs, started, returned, linearizable, reserved, charts>>

\* ensure_headers, lines 45-46.
RowValues(t) ==
    /\ InStore(t)
    /\ w[t].step = "eh_row1"
    /\ \E store_ok \in BOOLEAN :
         LET first_row == row_values(sheet[Tab(t)].rows, 1) IN
         Set(t, IF ~store_ok THEN StoreRaise(w[t])
                ELSE [w[t] EXCEPT !.step = IF first_row = <<>> THEN "eh_update"
                                           ELSE "ws_open"])
    /\ UNCHANGED <<sheet, docs, started, returned, linearizable, reserved, charts>>

\* ensure_headers, lines 47-48.
UpdateHeaders(t) ==
    /\ InStore(t)
    /\ w[t].step = "eh_update"
    /\ \E store_ok \in BOOLEAN :
         IF store_ok
         THEN /\ sheet' = [sheet EXCEPT ![Tab(t)].rows = update_row1(@, Headers(t))]
              /\ Set(t, [w[t] EXCEPT !.step = "ws_open"])
         ELSE /\ UNCHANGED sheet
              /\ Set(t, StoreRaise(w[t]))
    /\ UNCHANGED <<docs, started, returned, linearizable, reserved, charts>>

\* After ws.append_row: reserve_report_sequence goes on to count the rows,
\* append_report_entry returns into the handler's try block.
Appended(l) ==
    IF l.pc = "reserve"
    THEN [l EXCEPT !.step = "count",
                   !.floor = Max({0} \cup {returned[i] : i \in 1..Len(returned)})]
    ELSE [Reached(l, "Logged", "respond") EXCEPT !.step = "-", !.appended = TRUE]

\* ws.append_row, lines 61 and 79.
AppendRow(t) ==
    /\ InStore(t)
    /\ w[t].step = "append"
    /\ \E store_ok \in BOOLEAN :
         IF store_ok
         THEN /\ sheet' = [sheet EXCEPT ![Tab(t)].rows = append_row(@, RowOf(w[t]))]
              /\ reserved' = IF w[t].pc = "reserve" THEN reserved + 1 ELSE reserved
              /\ Set(t, Appended(w[t]))
         ELSE /\ UNCHANGED <<sheet, reserved>>
              /\ Set(t, StoreRaise(w[t]))
    /\ UNCHANGED <<docs, started, returned, linearizable, charts>>

\* reserve_report_sequence, lines 62-66, and format_report_number in the
\* handler.
CountRows(t) ==
    /\ w[t].pc = "reserve"
    /\ w[t].step = "count"
    /\ \E store_ok \in BOOLEAN, total_rows \in RowCounts(sheet[Tab(t)].rows) :
         LET seq == SeqOfRows(total_rows) IN
         IF ~store_ok
         THEN Set(t, StoreRaise(w[t])) /\ UNCHANGED returned
         ELSE IF SeqRejected(seq)
         THEN Set(t, Failed(w[t], "SequenceReserved", "RuntimeError"))
              /\ UNCHANGED returned
         ELSE /\ Set(t, [Reached(w[t], "SequenceReserved", AfterReserve(w[t].handler))
                           EXCEPT !.step = "-", !.seq = seq])
              /\ returned' = Append(returned, seq)
    /\ UNCHANGED <<sheet, docs, started, linearizable, reserved, charts>>

\* ------------------------------------------------------------------------
\* Document assembly
\* ------------------------------------------------------------------------
\* ------------------------------------------------------------------------
\* Compliance chart.  A float is a number of tenths, an infinity or NaN.
\* ------------------------------------------------------------------------
Num(v) == [kind |-> "num", v |-> v]
NaN == [kind |-> "nan", v |-> 0]
PosInf == [kind |-> "inf", v |-> 0]
NegInf == [kind |-> "-inf", v |-> 0]

\* s.replace(old, new) for a one-character old.
RECURSIVE ReplaceChar(_, _, _)
ReplaceChar(s, old, new) ==
    IF s = <<>> THEN <<>>
    ELSE (IF Head(s) = old THEN new ELSE <<Head(s)>>) \o ReplaceChar(Tail(s), old, new)

\* float(s) for plain decimal text with at most one digit after the point,
\* and for "nan"; a ValueError for text that is no number.
ParseUnsigned(t) ==
    LET dots == {k \in 1..Len(t) : t[k] = "."} IN
    IF dots = {} THEN (IF t # <<>> /\ Value(t) >= 0 THEN 10 * Value(t) ELSE -1)
    ELSE IF Cardinality(dots) > 1 THEN -1
    ELSE LET k == CHOOSE d \in dots : TRUE
             a == SubSeq(t, 1, k - 1)
             f == SubSeq(t, k + 1, Len(t))
         IN IF (a = <<>> /\ f = <<>>) \/ Len(f) > 1 \/ Value(a) < 0 \/ Value(f) < 0
            THEN -1
            ELSE 10 * Value(a) + Value(f)

float(s) ==
    LET t == strip(s)
        negative == t # <<>> /\ Head(t) = "-"
        body == IF t # <<>> /\ Head(t) \in {"-", "+"} THEN Tail(t) ELSE t
    IN IF body = <<"n", "a", "n">> THEN NaN
       ELSE IF ParseUnsigned(body) < 0 THEN [kind |-> "ValueError", v |-> 0]
       ELSE Num(IF negative THEN 0 - ParseUnsigned(body) ELSE ParseUnsigned(body))

\* _to_float_pct of build_context.
_to_float_pct(val) ==
    LET s == ReplaceChar(ReplaceChar(strip(val), "%", <<>>), ",", <<".">>) IN
    IF float(s).kind = "ValueError" THEN Num(0) ELSE float(s)

\* a < b on floats: every comparison with NaN is false.
Less(a, b) ==
    CASE a.kind = "nan" \/ b.kind = "nan" -> FALSE
      [] a.kind = "-inf" -> b.kind # "-inf"
      [] a.kind = "inf" -> FALSE
      [] b.kind = "inf" -> TRUE
      [] b.kind = "-inf" -> FALSE
      [] OTHER -> a.v < b.v

\* Python's min(a, b) and max(a, b): the first argument unless the second
\* is smaller (larger).
min2(a, b) == IF Less(b, a) THEN b ELSE a
max2(a, b) == IF Less(a, b) THEN b ELSE a

\* Variant: no upper limit.
ClampLowerOnly(porcentaje) == max2(Num(0), porcentaje)

\* pct = max(0, min(100, float(porcentaje)))
Clamp(porcentaje) == max2(Num(0), min2(Num(1000), porcentaje))

\* int(pct) for pct >= 0
IntPart(tenths) == tenths \div 10

\* generar_grafico_cumplimiento: the two segments and the path of the PNG.
generar_grafico_cumplimiento(porcentaje, nombre_base) ==
    LET pct == Clamp(porcentaje).v
        pendientes == 1000 - pct
    IN [valores |-> <<pct, pendientes>>,
        file_path |-> <<nombre_base, IntPart(pct)>>]

\* row.get(key, default)
get(row, key, default) == IF key \in DOMAIN row THEN row[key] ELSE default

\* Variant: the project row wins on a shared key.
MergeRowsProjectWins(row_proyecto, row_reporte) ==
    [k \in DOMAIN row_proyecto \cup DOMAIN row_reporte |->
        IF k \in DOMAIN row_proyecto THEN row_proyecto[k] ELSE row_reporte[k]]

\* {**row_proyecto, **row_reporte}
MergeRows(row_proyecto, row_reporte) ==
    [k \in DOMAIN row_proyecto \cup DOMAIN row_reporte |->
        IF k \in DOMAIN row_reporte THEN row_reporte[k] ELSE row_proyecto[k]]

\* The text keys of the context dictionary of build_context.
ContextKeys ==
    {"nombre_proyecto", "promotor_representante", "licencia_ambiental",
     "sector_productivo", "ubicacion_politica", "area",
     "id_informe", "fecha", "responsable",
     "sitio_inspeccion", "objetivo_visita", "metodologia", "descripcion",
     "hallazgos", "conformidades", "no_conformidades", "acciones_inmediatas",
     "conclusiones", "recomendaciones", "nivel_cumplimiento",
     "proyecto", "cliente"}

\* The text entries of the context: row.get(key, "") for each key.
ContextFields(row) == [k \in ContextKeys |-> get(row, k, "")]

\* row.get('id_informe', 'tmp'): the stored row carries its id_informe, the
\* form of /generar has no such field.
IdInformeOrTmp(l) ==
    IF l.handler = "generar" THEN <<"t", "m", "p">> ELSE Datos[l.args].id_informe

\* The chart build_context asks for (report_generator.py 106-112).
Grafico(l) ==
    generar_grafico_cumplimiento(_to_float_pct(Args(l).nivel_cumplimiento),
                                 <<"cumplimiento", IdInformeOrTmp(l)>>)

\* build_context: Image.open raises on bytes that are no image; the chart
\* is saved with fig.savefig.
build_context(l, chart_ok) ==
    IF \E i \in 1..Len(l.images) : l.images[i] # "image"
    THEN Failed(l, "ContextBuilt", "UnidentifiedImageError")
    ELSE IF ~chart_ok THEN Failed(l, "ContextBuilt", "ChartWriteError")
    ELSE [Reached(l, "ContextBuilt", "render") EXCEPT
            !.ruta_png = Grafico(l).file_path,
            !.porcentaje = Grafico(l).valores[1]]

\* fig.savefig(file_path) replaces the file at that path.
savefig(files, file_path, valores) ==
    [f \in DOMAIN files \cup {file_path} |->
        IF f = file_path THEN valores ELSE files[f]]

Context(t) ==
    /\ w[t].pc = "context"
    /\ \E chart_ok \in BOOLEAN :
         /\ Set(t, build_context(w[t], chart_ok))
         /\ charts' = IF w'[t].pc = "render"
                       THEN savefig(charts, Grafico(w[t]).file_path, Grafico(w[t]).valores)
                       ELSE charts
    /\ UNCHANGED <<sheet, docs, started, returned, linearizable, reserved>>

\* f"{numero_informe}_{proyecto_safe}_{cliente_safe}_{fecha_safe}.docx"
FileName(l, parts, ext) == <<numero_informe(l), parts, ext>>

\* Variant: the handler goes on after a failed render.
RenderedIgnoringError(l, name, ok) ==
    [Reached(l, "Rendered", "pdf") EXCEPT !.filename = name, !.saved = ok]

\* try: doc.render(context); doc.save(path) / except: error response.
Rendered(l, name, ok) ==
    IF ok THEN [Reached(l, "Rendered", "pdf") EXCEPT !.filename = name, !.saved = TRUE]
    ELSE [Failed(l, "Rendered", "RenderError") EXCEPT !.filename = name]

\* doc.render reads the chart file named by the InlineImage of the context:
\* whether it holds what this request drew.
EmbedsOwnChart(l) == charts[l.ruta_png][1] = l.porcentaje

\* A failed save may leave the file behind.
Render(t) ==
    /\ w[t].pc = "render"
    /\ \E parts \in NameParts, ok \in BOOLEAN, written \in BOOLEAN :
         LET name == FileName(w[t], parts, "docx") IN
         /\ ok => written
         /\ docs' = IF written THEN docs \cup {name} ELSE docs
         /\ Set(t, [Rendered(w[t], name, ok) EXCEPT
                      !.chart_own = (ok => EmbedsOwnChart(w[t]))])
    /\ UNCHANGED <<sheet, started, returned, linearizable, reserved, charts>>

\* _try_convert_to_pdf: the PDF name, or "" when no converter produced it.
TriedPdf(l, converted) ==
    [Reached(l, "PdfAttempted", "log") EXCEPT
       !.step = "eh_open",
       !.filename_pdf = IF converted THEN [l.filename EXCEPT ![3] = "pdf"] ELSE <<>>]

Pdf(t) ==
    /\ w[t].pc = "pdf"
    /\ \E converted \in BOOLEAN :
         /\ docs' = IF converted THEN docs \cup {[w[t].filename EXCEPT ![3] = "pdf"]}
                    ELSE docs
         /\ Set(t, TriedPdf(w[t], converted))
    /\ UNCHANGED <<sheet, started, returned, linearizable, reserved, charts>>

\* return templates.TemplateResponse("success.html", ...) with filename,
\* filename_pdf and numero_informe; the handler's frame is gone.
Succeeded(l) ==
    [IdleLocals EXCEPT !.pc = "done", !.handler = l.handler,
                       !.stages = Append(l.stages, "Done"), !.response = "success",
                       !.seq = l.seq, !.filename = l.filename,
                       !.filename_pdf = l.filename_pdf,
                       !.saved = l.saved, !.appended = l.appended,
                       !.chart_own = l.chart_own, !.err = l.err]

Respond(t) ==
    /\ w[t].pc = "respond"
    /\ Set(t, Succeeded(w[t]))
    /\ UNCHANGED <<sheet, docs, started, returned, linearizable, reserved, charts>>

\* ------------------------------------------------------------------------
\* Specifications
\* ------------------------------------------------------------------------
Step(t) ==
    \/ Start(t)
    \/ Lookup(t)
    \/ Project(t)
    \/ Images(t)
    \/ Template(t)
    \/ CallReserve(t)
    \/ WsOpen(t)
    \/ WsAdd(t)
    \/ RowValues(t)
    \/ UpdateHeaders(t)
    \/ AppendRow(t)
    \/ CountRows(t)
    \/ Context(t)
    \/ Render(t)
    \/ Pdf(t)
    \/ Respond(t)

Next == (\E t \in Workers : Step(t)) /\ UNCHANGED call

\* Requests arrive at any time and run concurrently.
Spec == Init /\ [][Next]_vars

\* The same, over a store that is not linearizable.
SpecStale == InitStale /\ [][Next]_vars

\* No other request is in progress.
Alone(t) == \A u \in Workers \ {t} : w[u].pc \in {"idle", "done", "failed"}

NextSerial == (\E t \in Workers : Alone(t) /\ Step(t)) /\ UNCHANGED call

\* One request at a time.
SpecSerial == Init /\ [][NextSerial]_vars

\* A first row that is not the headers the code passes to ensure_headers.
OtherHeaders == <<"id_informe", "fecha">>

\* The two tabs are missing, or exist without rows, or were set up by hand
\* with another first row.
InitLegacy ==
    /\ sheet \in {[tab \in Tabs |-> MissingTab],
                   [tab \in Tabs |-> EmptyTab],
                   [tab \in Tabs |-> [exists |-> TRUE, rows |-> <<OtherHeaders>>]]}
    /\ docs = {}
    /\ w = [t \in Workers |-> IdleLocals]
    /\ started = 0
    /\ returned = <<>>
    /\ reserved = 0
    /\ charts = <<>>
    /\ call = <<>>
    /\ linearizable = TRUE

\* One request at a time over such a spreadsheet.
SpecLegacy == InitLegacy /\ [][NextSerial]_vars

\* ------------------------------------------------------------------------
\* Helper functions called on their own.  The request pipeline is at rest;
\* call holds the arguments, and the result once the function has returned.
\* ------------------------------------------------------------------------
AtRest ==
    /\ sheet = [tab \in Tabs |-> MissingTab]
    /\ docs = {}
    /\ w = [t \in Workers |-> IdleLocals]
    /\ started = 0
    /\ returned = <<>>
    /\ reserved = 0
    /\ charts = <<>>
    /\ linearizable = TRUE

\* Sequence numbers: a dense range, and numbers with as many digits as the
\* default pad and more.
SeqValues == 1..MaxSeq \cup {99999, 100000, 123456}
Prefixes == {REPORTS_NUMBER_PREFIX, <<"R">>}
Pads == {1, 2, REPORTS_NUMBER_PAD}

\* Two calls of format_report_number with the same prefix and pad, in the
\* same year.
InitFormat ==
    /\ AtRest
    /\ call \in [seq : SeqValues, seq2 : SeqValues, prefix : Prefixes, pad : Pads,
                  done : {FALSE}, out : {<<>>}, out2 : {<<>>}]

FormatReportNumber ==
    /\ ~call.done
    /\ call' = [call EXCEPT
                  !.done = TRUE,
                  !.out = format_report_number(call.seq, call.prefix, call.pad),
                  !.out2 = format_report_number(call.seq2, call.prefix, call.pad)]
    /\ UNCHANGED pvars

SpecFormat == InitFormat /\ [][FormatReportNumber]_vars

\* Identifiers and links as users type them.
Tokens ==
    {IdFoto, IdPdf, IdActa, UrlFoto, UrlPdf, Corto, <<>>, Espaciado, UrlDoble,
     UrlAbierta, IdPunto}

InitNormalize ==
    /\ AtRest
    /\ call \in [mixed : UNION {[1..n -> Tokens] : n \in 0..MaxIds},
                  done : {FALSE}, out : {<<>>}]

NormalizeIds ==
    /\ ~call.done
    /\ call' = [call EXCEPT !.done = TRUE, !.out = normalize_ids(call.mixed)]
    /\ UNCHANGED pvars

SpecNormalize == InitNormalize /\ [][NormalizeIds]_vars

\* Columns a row may or may not have, and cell values; a blank cell is "".
RowKeys == {"area", "responsable", "proyecto_id"}
CellValues == {"", "X", "Y"}
Rows == UNION {[D -> CellValues] : D \in SUBSET RowKeys}

\* generar_desde_sheet merges the project row (or {} when proyecto_id is
\* blank) with the report row, injects numero_informe and builds the context.
InitMerge ==
    /\ AtRest
    /\ call \in [row_proyecto : Rows, row_reporte : Rows, done : {FALSE}, out : {<<>>}]

BuildContextFields ==
    /\ ~call.done
    /\ LET row == MergeRows(call.row_proyecto, call.row_reporte)
           numbered == [k \in DOMAIN row \cup {"numero_informe"} |->
                          IF k = "numero_informe"
                          THEN format_report_number(1, REPORTS_NUMBER_PREFIX,
                                                    REPORTS_NUMBER_PAD)
                          ELSE row[k]]
       IN call' = [call EXCEPT !.done = TRUE, !.out = ContextFields(numbered)]
    /\ UNCHANGED pvars

SpecMerge == InitMerge /\ [][BuildContextFields]_vars

\* Percentages passed to the chart renderer.
Floats == {Num(v) : v \in (0 - MaxTenths)..MaxTenths} \cup {NaN, PosInf, NegInf}

InitChart ==
    /\ AtRest
    /\ call \in [porcentaje : Floats, nombre_base : {"cumplimiento"},
                  done : {FALSE}, out : {<<>>}]

GenerarGrafico ==
    /\ ~call.done
    /\ call' = [call EXCEPT
                  !.done = TRUE,
                  !.out = generar_grafico_cumplimiento(call.porcentaje, call.nombre_base)]
    /\ UNCHANGED pvars

SpecChart == InitChart /\ [][GenerarGrafico]_vars

\* ------------------------------------------------------------------------
\* Properties
\* ------------------------------------------------------------------------
IsPrefix(p, q) == Len(p) <= Len(q) /\ \A i \in 1..Len(p) : p[i] = q[i]

SeqRows == sheet[REPORTS_SEQ_SHEET_NAME].rows
ReportRows == sheet[GSHEET_TAB_REPORTES].rows

\* Rows below the header row.
DataRows(rows) == IF rows = <<>> THEN 0 ELSE Len(rows) - 1

\* C1: one request at a time over a linearizable store, starting from a
\* counter tab without data rows: as long as every call of
\* reserve_report_sequence that appended its row has returned, the values
\* returned so far are 1, 2, ..., N in call order, whatever responsable and
\* proyecto_id were passed.
C1_SequentialNumbers ==
    Len(returned) = reserved => \A i \in 1..Len(returned) : returned[i] = i

\* Two calls have returned, with different arguments.
C1_Witness ==
    /\ returned = <<1, 2>>
    /\ reserved = 2
    /\ SeqRows[2] # SeqRows[3]

\* C2: over a linearizable store no two calls of reserve_report_sequence
\* return the same sequence number, under every interleaving of their
\* append and count steps.
C2_DistinctNumbers ==
    \A i, j \in 1..Len(returned) : i # j => returned[i] # returned[j]

\* The data rows of the counter tab are as many as the reservations made,
\* and a reservation gets a number larger than every number returned before
\* its row was appended.
C3_LedgerInv ==
    /\ DataRows(SeqRows) = reserved
    /\ \A t \in Workers : w[t].seq # 0 => w[t].seq > w[t].floor

\* No step modifies or removes a data row of the counter tab.
C3_RowsKept ==
    /\ Len(SeqRows') >= Len(SeqRows)
    /\ \A i \in 2..Len(SeqRows) : SeqRows'[i] = SeqRows[i]

\* C3: the counter tab is a ledger.  Its data rows are as many as the
\* reservations ever made, also after requests that failed once they had
\* reserved; no data row is ever modified or removed; and a reservation
\* gets a number larger than every number returned before its row was
\* appended.
C3_Ledger == [](C3_LedgerInv) /\ [][C3_RowsKept]_vars

\* A request failed at the render step after reserving number 1, and the
\* next reservation returned 2.
C3_Witness ==
    /\ returned = <<1, 2>>
    /\ reserved = 2
    /\ \E t, u \in Workers :
         /\ w[t].pc = "failed" /\ w[t].failedAt = "Rendered"
         /\ w[u].seq = 2 /\ w[u].floor = 1

\* The order of the steps as the specification gives it.
SpecOrder ==
    <<"Received", "ProjectResolved", "SequenceReserved", "ImagesResolved",
      "ContextBuilt", "Rendered", "PdfAttempted", "Logged", "Done">>

\* The order of the steps in each handler.
HandlerOrder(handler) ==
    IF handler = "generar"
    THEN <<"Received", "ProjectResolved", "ImagesResolved", "SequenceReserved",
           "ContextBuilt", "Rendered", "PdfAttempted", "Logged", "Done">>
    ELSE <<"Received", "ImagesResolved", "ProjectResolved", "SequenceReserved",
           "ContextBuilt", "Rendered", "PdfAttempted", "Logged", "Done">>

\* C4 as stated: every request goes through Received, ProjectResolved,
\* SequenceReserved, ImagesResolved, ContextBuilt, Rendered, PdfAttempted,
\* Logged, Done in this order.
C4_SpecOrder == \A t \in Workers : IsPrefix(w[t].stages, SpecOrder)

\* C4, amended: the images are resolved before the sequence number is
\* reserved.  generar goes Received, ProjectResolved, ImagesResolved,
\* SequenceReserved, ContextBuilt, Rendered, PdfAttempted, Logged, Done;
\* generar_desde_sheet resolves the images before the project and is
\* otherwise the same.
C4_HandlerOrder ==
    \A t \in Workers :
        w[t].handler \in Handlers => IsPrefix(w[t].stages, HandlerOrder(w[t].handler))

\* One request of each handler has gone through every step.
C4_Witness ==
    \E t, u \in Workers :
        /\ w[t].pc = "done" /\ w[t].stages = HandlerOrder("generar")
        /\ w[u].pc = "done" /\ w[u].stages = HandlerOrder("generar_desde_sheet")

\* C5: a request appends its row to the Informes tab only after it has
\* reserved its number and saved its document; a request that failed has
\* answered with an error and has appended no row; every row of the tab
\* carries the number of a document that is on disk.
C5_RegistryAfterRender ==
    /\ \A t \in Workers :
         /\ w[t].appended =>
              /\ w[t].seq >= 1
              /\ w[t].saved
              /\ w[t].filename \in docs
              /\ w[t].filename[1] = numero_informe(w[t])
         /\ w[t].pc = "failed" => ~w[t].appended /\ w[t].response = "error"
    /\ \A i \in 2..Len(ReportRows) :
         \E d \in docs : d[1] = ReportRows[i][2] /\ d[3] = "docx"

\* One request has registered its document, another failed at the render
\* step and left no row.
C5_Witness ==
    /\ Len(ReportRows) = 2
    /\ reserved = 2
    /\ \E t, u \in Workers :
         /\ w[t].pc = "done" /\ w[t].appended
         /\ w[u].pc = "failed" /\ w[u].failedAt = "Rendered"

\* C6: a request that has saved its document never fails afterwards: it
\* can always take its next step, it tries the PDF conversion, which gives
\* the PDF name or none, then the registry append, whose exceptions are
\* caught, and it answers success with the name of the document, which is
\* on disk.
C6_SuccessAfterRender ==
    \A t \in Workers :
        w[t].saved =>
            /\ w[t].pc \in {"pdf", "log", "respond", "done"}
            /\ w[t].filename \in docs
            /\ w[t].pc # "done" => ENABLED Step(t)
            /\ w[t].pc # "pdf" =>
                 /\ w[t].filename_pdf \in {<<>>, [w[t].filename EXCEPT ![3] = "pdf"]}
                 /\ w[t].filename_pdf # <<>> => w[t].filename_pdf \in docs
            /\ w[t].pc \in {"respond", "done"} =>
                 w[t].stages[Len(w[t].stages) - (IF w[t].pc = "done" THEN 1 ELSE 0)]
                     = "Logged"
            /\ w[t].pc = "done" => w[t].response = "success"

\* The PDF conversion and the registry append both failed, and the request
\* answered success: the document is on disk and the Informes tab has no
\* row for it.
C6_Witness ==
    \E t \in Workers :
        /\ w[t].pc = "done" /\ w[t].saved /\ ~w[t].appended
        /\ w[t].filename_pdf = <<>>
        /\ w[t].response = "success"
        /\ w[t].filename \in docs
        /\ DataRows(ReportRows) = 0

\* C7: no request fails at the step that resolves the project, in either
\* handler, whether proyecto_id is blank, present in Proyectos or absent
\* from it, and whether or not the lookup raises.
C7_ProjectNeverFails == \A t \in Workers : w[t].failedAt # "ProjectResolved"

\* C8: no request fails at the step that resolves the images, whatever
\* download fails and also when the file-store client cannot be obtained.
C8_ImagesNeverFail == \A t \in Workers : w[t].failedAt # "ImagesResolved"

\* C9: build_context fails only when the chart cannot be written, whatever
\* the downloaded blobs hold.
C9_ContextFailsOnlyOnChart ==
    \A t \in Workers : w[t].failedAt = "ContextBuilt" => w[t].err = "ChartWriteError"

\* C10: reserve_report_sequence returns only numbers >= 1; when
\* total_rows - 1 is below 1 it raises, and the request ends there with an
\* error, before any document is rendered or saved and before any row is
\* appended to the Informes tab.
C10_SequencePositive ==
    /\ \A i \in 1..Len(returned) : returned[i] >= 1
    /\ \A t \in Workers :
         /\ w[t].seq >= 0
         /\ "SequenceReserved" \in {w[t].stages[i] : i \in 1..Len(w[t].stages)}
              /\ w[t].pc # "failed" => w[t].seq >= 1
         /\ w[t].err = "RuntimeError" =>
              /\ w[t].pc = "failed" /\ w[t].failedAt = "SequenceReserved"
              /\ w[t].response = "error"
              /\ ~w[t].saved /\ ~w[t].appended
              /\ \A i \in 1..Len(w[t].stages) :
                   w[t].stages[i] \notin {"SequenceReserved", "ContextBuilt", "Rendered",
                                          "PdfAttempted", "Logged", "Done"}

\* The store served a stale row count and the call raised.
C10_Witness ==
    \E t \in Workers : w[t].err = "RuntimeError" /\ reserved >= 1

\* Number of decimal digits of n >= 0.
RECURSIVE NumDigits(_)
NumDigits(n) == IF n < 10 THEN 1 ELSE 1 + NumDigits(n \div 10)

\* C12: format_report_number(seq, prefix, pad) is prefix, "-", the year,
\* "-" and seq in decimal, left-padded with zeros to at least pad digits
\* and never cut; for the same prefix, pad and year, different sequence
\* numbers give different report numbers; seq 7 with prefix INF and pad 5
\* gives INF-2024-00007.
C12_FormatReportNumber ==
    call # <<>> /\ call.done =>
        LET n == Len(call.prefix)
            out == call.out
            ds == SubSeq(out, n + 7, Len(out))
        IN /\ SubSeq(out, 1, n) = call.prefix
           /\ SubSeq(out, n + 1, n + 6) = <<"-", "2", "0", "2", "4", "-">>
           /\ Len(ds) = Max({call.pad, NumDigits(call.seq)})
           /\ Value(ds) = call.seq
           /\ call.seq # call.seq2 => call.out # call.out2
           /\ (call.seq = 7 /\ call.prefix = <<"I", "N", "F">> /\ call.pad = 5) =>
                 out = <<"I", "N", "F", "-", "2", "0", "2", "4", "-",
                         "0", "0", "0", "0", "7">>

\* The example of the specification, next to a number with more digits
\* than the pad.
C12_Witness ==
    /\ call # <<>> /\ call.done
    /\ call.seq = 7 /\ call.seq2 = 123456 /\ call.pad = 5
    /\ call.out = <<"I", "N", "F", "-", "2", "0", "2", "4", "-", "0", "0", "0", "0", "7">>
    /\ call.out2 = <<"I", "N", "F", "-", "2", "0", "2", "4", "-",
                     "1", "2", "3", "4", "5", "6">>

\* The identifier each token stands for, <<>> for none.
ExpectedId(token) ==
    CASE token \in {IdFoto, UrlFoto, Espaciado, UrlDoble} -> IdFoto
      [] token \in {IdPdf, UrlPdf} -> IdPdf
      [] token = IdActa -> IdActa
      [] OTHER -> <<>>

\* Position of the first token of mixed that stands for fid.
FirstSeen(mixed, fid) == Min({k \in 1..Len(mixed) : ExpectedId(mixed[k]) = fid})

\* C13: normalize_ids returns no identifier twice, returns exactly the
\* identifiers its inputs stand for (a whole trimmed identifier as it is,
\* else the /d/<id>/ match, else the ?id= or &id= match, else nothing), and
\* lists them in the order of their first occurrence; [A, B, A, C] gives
\* [A, B, C].
C13_NormalizeIds ==
    call # <<>> /\ call.done =>
        LET mixed == call.mixed
            out == call.out
        IN /\ \A i, j \in 1..Len(out) : i # j => out[i] # out[j]
           /\ {out[i] : i \in 1..Len(out)}
                = {ExpectedId(mixed[k]) : k \in 1..Len(mixed)} \ {<<>>}
           /\ \A i, j \in 1..Len(out) :
                 i < j => FirstSeen(mixed, out[i]) < FirstSeen(mixed, out[j])
           /\ mixed = <<IdFoto, IdPdf, IdFoto, IdActa>> => out = <<IdFoto, IdPdf, IdActa>>

\* A list with a repeated identifier behind a link, a token that stands for
\* nothing and a link holding two identifiers.
C13_Witness ==
    /\ call # <<>> /\ call.done
    /\ call.mixed = <<UrlPdf, Corto, UrlDoble, IdPdf>>
    /\ call.out = <<IdPdf, IdFoto>>

\* C14: every text key of the context holds the report row's value when
\* the report row has the key, else the project row's value when the
\* project row has it, else ""; a context is built whatever keys are
\* missing.  Project area X with no area in the report row gives X; a
\* report row with area Y gives Y.
C14_MergePrecedence ==
    call # <<>> /\ call.done =>
        LET p == call.row_proyecto
            r == call.row_reporte
        IN /\ DOMAIN call.out = ContextKeys
           /\ \A k \in ContextKeys :
                 call.out[k] = IF k \in DOMAIN r THEN r[k]
                               ELSE IF k \in DOMAIN p THEN p[k]
                               ELSE ""
           /\ ("area" \in DOMAIN p /\ p["area"] = "X" /\ "area" \notin DOMAIN r) =>
                 call.out["area"] = "X"
           /\ ("area" \in DOMAIN r /\ r["area"] = "Y") => call.out["area"] = "Y"

\* Both rows have an area, the report row alone has a responsable, and no
\* row has the other keys.
C14_Witness ==
    /\ call # <<>> /\ call.done
    /\ DOMAIN call.row_proyecto = {"area"} /\ call.row_proyecto["area"] = "X"
    /\ DOMAIN call.row_reporte = {"area", "responsable"}
    /\ call.row_reporte["area"] = "Y"
    /\ call.out["area"] = "Y"
    /\ call.out["responsable"] = call.row_reporte["responsable"]
    /\ call.out["cliente"] = ""

\* C15: for every number p the chart renderer draws pct = min(100,
\* max(0, p)) and 100 - pct, both within 0..100, and names its file with
\* the integer part of pct; no input is rejected: 150 is drawn as 100 with
\* nothing pending, -5 as 0.  (Percentages are in tenths.)
C15_ChartClamp ==
    call # <<>> /\ call.done =>
        LET p == call.porcentaje
            pct == call.out.valores[1]
            pendientes == call.out.valores[2]
            n == call.out.file_path[2]
        IN /\ pct \in 0..1000 /\ pendientes \in 0..1000
           /\ pct + pendientes = 1000
           /\ 10 * n <= pct /\ pct < 10 * (n + 1)
           /\ p.kind = "num" =>
                 pct = (IF p.v < 0 THEN 0 ELSE IF p.v > 1000 THEN 1000 ELSE p.v)
           /\ p.kind = "inf" => pct = 1000
           /\ p.kind = "-inf" => pct = 0
           /\ p = Num(1500) => pct = 1000 /\ pendientes = 0 /\ n = 100
           /\ p = Num(0 - 50) => pct = 0 /\ n = 0

\* 150 was passed and drawn as 100.
C15_Witness ==
    /\ call # <<>> /\ call.done
    /\ call.porcentaje = Num(1500)
    /\ call.out.valores = <<1000, 0>>
    /\ call.out.file_path = <<"cumplimiento", 100>>

\* C11 as stated: a request that went through writes a document whose name
\* begins with its report number and appends one row to the Informes tab
\* whose id_informe is that of the report the request was made for.
C11_RequestedId ==
    \A t \in Workers :
        (w[t].pc = "respond" /\ w[t].appended) =>
            /\ w[t].filename[1] = numero_informe(w[t])
            /\ \E i \in 2..Len(ReportRows) :
                 ReportRows[i][2] = (IF w[t].handler = "generar" THEN numero_informe(w[t])
                                     ELSE RequestedId(w[t]))

\* What a request that went through has left behind.
C11_Inv ==
    \A t \in Workers :
        /\ w[t].saved =>
              /\ "SequenceReserved" \in {w[t].stages[i] : i \in 1..Len(w[t].stages)}
              /\ \E i \in 1..Len(returned) : returned[i] = w[t].seq
              /\ w[t].filename[1]
                   = <<"I", "N", "F", "-", "2", "0", "2", "4", "-">> \o ZeroPad(w[t].seq, 5)
              /\ w[t].filename \in docs
        /\ (w[t].pc = "done" /\ w[t].err = "-") => w[t].saved /\ w[t].appended
        /\ w[t].appended =>
              \E i \in 2..Len(ReportRows) : ReportRows[i][2] = w[t].filename[1]

\* A step that adds a row to the Informes tab is the one append of a
\* request, and the row's id_informe is the report number of that request.
C11_Step ==
    DataRows(ReportRows') # DataRows(ReportRows) =>
        \E t \in Workers :
            /\ w[t].pc = "log" /\ ~w[t].appended /\ w'[t].appended
            /\ Len(ReportRows') = Len(ReportRows) + 1
            /\ SubSeq(ReportRows', 1, Len(ReportRows)) = ReportRows
            /\ ReportRows'[Len(ReportRows')][2] = w[t].filename[1]
            /\ \A u \in Workers \ {t} : w'[u] = w[u]

\* C11, amended: a request in which no step fails writes a document whose
\* name begins with the report number formatted from the sequence number
\* the same request reserved, and appends exactly one row to the Informes
\* tab; the id_informe of that row is this report number, not the
\* id_informe the request was made for.
C11_EndToEnd == [](C11_Inv) /\ [][C11_Step]_vars

\* A request for the stored report I1 went through with number 1.
C11_Witness ==
    \E t \in Workers :
        /\ w[t].pc = "respond" /\ w[t].handler = "generar_desde_sheet"
        /\ w[t].args = "I1" /\ w[t].appended /\ w[t].seq = 1
        /\ ReportRows[Len(ReportRows)][2]
             = <<"I", "N", "F", "-", "2", "0", "2", "4", "-", "0", "0", "0", "0", "1">>

\* C16: no two requests write their documents to the same file name.
C16_DistinctFiles ==
    \A t, u \in Workers :
        (t # u /\ w[t].saved /\ w[u].saved) => w[t].filename # w[u].filename

\* C17: once ensure_headers has returned, row 1 of the tab holds the
\* headers that were passed, whatever the tab held before.
C17_HeadersEnsured ==
    \A t \in Workers :
        (InStore(t) /\ w[t].step \in {"ws_open", "ws_add", "append", "count"}) =>
            row_values(sheet[Tab(t)].rows, 1) = Headers(t)

\* C18: a request rejected for a missing template has reserved no sequence
\* number.
C18_TemplateBeforeReserve ==
    \A t \in Workers :
        w[t].failedAt = "TemplateCheck" =>
            "SequenceReserved" \notin {w[t].stages[i] : i \in 1..Len(w[t].stages)}

\* C19: every document that was rendered embeds the chart drawn from the
\* percentage of its own request.
C19_OwnChart == \A t \in Workers : w[t].saved => w[t].chart_own

====
